---- MODULE Spec2Model ----
(***************************************************************************)
(* Surprise-driven neural memory (Titan): the memory store with its paired *)
(* surprise buffers and momentum/decay recurrence (src/model.py), and the  *)
(* orchestrating unit with chunked conditioning                            *)
(* (src/pytitan/model/neural_memory.py).                                   *)
(*                                                                         *)
(* Numbers are exact rationals <<n, d>> in lowest terms with d > 0.        *)
(* A tensor is a matrix: a sequence of rows, each a sequence of rationals. *)
(* A buffer name is a sequence of tokens, so that the substring test       *)
(* `"surprise" in name` is a test on tokens.                               *)
(*                                                                         *)
(* An input to the unit is its sequence axis: a sequence of rows of width  *)
(* dim_in (batch size one).  neural_memory.py imports LinearMemory from    *)
(* pytitan.model.memory; the LinearMemory and MemoryModule of src/model.py *)
(* stand for it, with forward applied row by row.                          *)
(*                                                                         *)
(* Two specifications: SpecStore drives a bare MemoryModule through        *)
(* update; Spec drives a NeuralMemory unit through condition and forward.  *)
(***************************************************************************)
EXTENDS Integers, Sequences, FiniteSets, TLC

VARIABLES buffers, layers, lr, unit, pc, call, last, warnings, nUpdate, used

vars == <<buffers, layers, lr, unit, pc, call, last, warnings, nUpdate, used>>

(***************************************************************************)
(* Bounds of the model.                                                    *)
(***************************************************************************)
\* SpecStore: at most this many calls of update
MaxUpdates == 2
\* Spec: the condition calls of one behaviour consume at most this many rows
\* of input in all (an empty input counts as one)
MaxRows == 4

(***************************************************************************)
(* Exact rational arithmetic (the tensor runtime's elementwise scalars).   *)
(***************************************************************************)
Abs(n) == IF n < 0 THEN -n ELSE n

RECURSIVE GCD(_, _)
GCD(a, b) == IF b = 0 THEN a ELSE GCD(b, a % b)

Norm(n, d) ==
    LET g == GCD(Abs(n), Abs(d))
        s == IF d < 0 THEN -1 ELSE 1
    IN  IF n = 0 THEN <<0, 1>> ELSE <<s * (n \div g), s * (d \div g)>>

R(n, d) == Norm(n, d)
RInt(i) == <<i, 1>>
RZero == <<0, 1>>
ROne == <<1, 1>>

RAdd(a, b) ==
    LET g == GCD(a[2], b[2])
        l == (a[2] \div g) * b[2]
    IN  Norm(a[1] * (l \div a[2]) + b[1] * (l \div b[2]), l)

RNeg(a) == <<-a[1], a[2]>>
RSub(a, b) == RAdd(a, RNeg(b))

RMul(a, b) ==
    LET g1 == GCD(Abs(a[1]), b[2])
        g2 == GCD(Abs(b[1]), a[2])
    IN  IF a[1] = 0 \/ b[1] = 0 THEN RZero
        ELSE Norm((a[1] \div g1) * (b[1] \div g2), (a[2] \div g2) * (b[2] \div g1))

RAbs(a) == <<Abs(a[1]), a[2]>>
\* torch.sign: -1, 0 or 1 (the derivative of |.| used by autograd, 0 at 0)
RSign(a) == IF a[1] > 0 THEN ROne ELSE IF a[1] < 0 THEN RInt(-1) ELSE RZero

RECURSIVE RSumSeq(_)
RSumSeq(s) == IF s = <<>> THEN RZero ELSE RAdd(Head(s), RSumSeq(Tail(s)))

(***************************************************************************)
(* Tensors (matrices) and their elementwise operations.                    *)
(***************************************************************************)
Rows(t) == Len(t)
Cols(t) == IF Len(t) = 0 THEN 0 ELSE Len(t[1])
shape(t) == <<Rows(t), Cols(t)>>

\* torch.zeros_like
zeros_like(t) == [i \in 1..Rows(t) |-> [j \in 1..Cols(t) |-> RZero]]
\* scalar * tensor
TScale(q, t) == [i \in 1..Rows(t) |-> [j \in 1..Cols(t) |-> RMul(q, t[i][j])]]
\* tensor + tensor of the same shape
TAdd(a, b) == [i \in 1..Rows(a) |-> [j \in 1..Cols(a) |-> RAdd(a[i][j], b[i][j])]]

(***************************************************************************)
(* MemoryModule: the ordered buffer dictionary of the store.               *)
(* buffers is nn.Module._buffers: a sequence of [name, val] in             *)
(* registration order.                                                     *)
(***************************************************************************)
\* position of name in the buffer dictionary, 0 when absent
IndexOf(bufs, name) ==
    IF \E i \in 1..Len(bufs) : bufs[i].name = name
    THEN CHOOSE i \in 1..Len(bufs) : bufs[i].name = name
    ELSE 0

\* nn.Module.register_buffer: a name already registered keeps its position
register_buffer(bufs, name, tensor) ==
    LET i == IndexOf(bufs, name)
    IN  IF i = 0
        THEN Append(bufs, [name |-> name, val |-> tensor])
        ELSE [bufs EXCEPT ![i] = [name |-> name, val |-> tensor]]

\* nn.Module.get_buffer
get_buffer(bufs, name) == bufs[IndexOf(bufs, name)].val

\* f"{name}_surprise_tpast"
get_corresponding_surprise_name(name) == name \o <<"_", "surprise", "_", "tpast">>

\* "surprise" in name
ContainsSurprise(name) == \E i \in 1..Len(name) : name[i] = "surprise"

\* mutant: the enumeration forgets to filter out the surprise entries
get_named_weights_unfiltered(bufs) == bufs

get_named_weights(bufs) == SelectSeq(bufs, LAMBDA b : ~ContainsSurprise(b.name))

get_weights(bufs) ==
    LET nw == get_named_weights(bufs) IN [i \in 1..Len(nw) |-> nw[i].val]

\* LinearMemory.construct_layers: one matrix of shape (dim_out, dim_in); w is
\* the sample xavier_normal_ drew
LinearMemory_construct_layers(w) == << [name |-> <<"model">>, val |-> w] >>

\* a second variant of the abstract hook, with two weight entries
AffineMemory_construct_layers(w, b) ==
    << [name |-> <<"model">>, val |-> w], [name |-> <<"bias">>, val |-> b] >>

RECURSIVE construct_loop(_, _)
construct_loop(bufs, weights) ==
    IF weights = <<>> THEN bufs
    ELSE LET e == Head(weights)
             b1 == register_buffer(bufs, e.name, e.val)
             b2 == register_buffer(b1, get_corresponding_surprise_name(e.name),
                                   zeros_like(e.val))
         IN  construct_loop(b2, Tail(weights))

\* MemoryModule._construct_layers on a fresh module
construct_layers(weights) == construct_loop(<<>>, weights)

(***************************************************************************)
(* The recurrence.  A gradient list entry is [none |-> TRUE] for the       *)
(* no-gradient marker, or [none |-> FALSE, val |-> tensor].                *)
(***************************************************************************)
NoneGrad == [none |-> TRUE, val |-> <<>>]
Grad(t) == [none |-> FALSE, val |-> t]

Min(a, b) == IF a < b THEN a ELSE b

\* mutant: the weight is advanced with the old surprise instead of the new one
update_entry_stale(st, grad, name, weight, lrate, eta, alpha) ==
    LET sname == get_corresponding_surprise_name(name)
        past_surprise == get_buffer(st.buffers, sname)
        surpise == TAdd(TScale(eta, past_surprise), TScale(lrate, grad.val))
        b1 == register_buffer(st.buffers, sname, surpise)
        b2 == register_buffer(b1, name,
                              TAdd(TScale(RSub(ROne, alpha), weight), past_surprise))
    IN  IF grad.none
        THEN [buffers |-> st.buffers, warnings |-> st.warnings + 1]
        ELSE [buffers |-> b2, warnings |-> st.warnings]

\* mutant: the new weight is computed but never written back
update_entry_no_weight_write(st, grad, name, weight, lrate, eta, alpha) ==
    LET sname == get_corresponding_surprise_name(name)
        past_surprise == get_buffer(st.buffers, sname)
        surpise == TAdd(TScale(eta, past_surprise), TScale(lrate, grad.val))
        b1 == register_buffer(st.buffers, sname, surpise)
    IN  IF grad.none
        THEN [buffers |-> st.buffers, warnings |-> st.warnings + 1]
        ELSE [buffers |-> b1, warnings |-> st.warnings]

\* one iteration of the loop of _update_memory, for the i-th zipped pair
update_entry(st, grad, name, weight, lrate, eta, alpha) ==
    LET sname == get_corresponding_surprise_name(name)
        past_surprise == get_buffer(st.buffers, sname)
        surpise == TAdd(TScale(eta, past_surprise), TScale(lrate, grad.val))
        b1 == register_buffer(st.buffers, sname, surpise)
        b2 == register_buffer(b1, name, TAdd(TScale(RSub(ROne, alpha), weight), surpise))
    IN  IF grad.none
        THEN [buffers |-> st.buffers, warnings |-> st.warnings + 1]
        ELSE [buffers |-> b2, warnings |-> st.warnings]

\* mutant: a missing gradient ends the loop (break) instead of skipping the
\* entry (continue)
RECURSIVE update_loop_break(_, _, _, _, _, _, _)
update_loop_break(st, grads, weights, i, lrate, eta, alpha) ==
    IF i > Min(Len(grads), Len(weights)) THEN st
    ELSE IF grads[i].none
         THEN [buffers |-> st.buffers, warnings |-> st.warnings + 1]
         ELSE update_loop_break(update_entry(st, grads[i], weights[i].name, weights[i].val,
                                             lrate, eta, alpha),
                                grads, weights, i + 1, lrate, eta, alpha)

\* for grad, (name, weight) in zip(grads, self.get_named_weights())
RECURSIVE update_loop(_, _, _, _, _, _, _)
update_loop(st, grads, weights, i, lrate, eta, alpha) ==
    IF i > Min(Len(grads), Len(weights)) THEN st
    ELSE update_loop(update_entry(st, grads[i], weights[i].name, weights[i].val,
                                  lrate, eta, alpha),
                     grads, weights, i + 1, lrate, eta, alpha)

\* mutant: the length check is missing, zip stops at the shorter list
update_memory_nocheck(bufs, lrate, grads, eta, alpha) ==
    LET weights == get_named_weights(bufs)
        st == update_loop([buffers |-> bufs, warnings |-> 0], grads, weights, 1,
                          lrate, eta, alpha)
    IN  [raised |-> FALSE, buffers |-> st.buffers, warnings |-> st.warnings]

\* MemoryModule._update_memory: [raised, buffers, warnings]
update_memory(bufs, lrate, grads, eta, alpha) ==
    LET weights == get_named_weights(bufs)
        st == update_loop([buffers |-> bufs, warnings |-> 0], grads, weights, 1,
                          lrate, eta, alpha)
    IN  IF Len(grads) # Len(weights)
        THEN [raised |-> TRUE, buffers |-> bufs, warnings |-> 0]
        ELSE [raised |-> FALSE, buffers |-> st.buffers, warnings |-> st.warnings]

\* MemoryModule.update
update(bufs, lrate, grads, eta, alpha) == update_memory(bufs, lrate, grads, eta, alpha)

(***************************************************************************)
(* LinearMemory.forward, nn.Linear, the L1 surprise metric and its         *)
(* gradient.  An input x is a sequence of rows (tokens along the sequence  *)
(* axis), each of width dim_in.                                            *)
(***************************************************************************)
Dot(u, w) == RSumSeq([j \in 1..Len(u) |-> RMul(u[j], w[j])])

\* (self.model @ x.permute(1,0)).permute(1,0)
LinearMemory_forward(bufs, x) ==
    LET model == get_buffer(bufs, <<"model">>)
    IN  [r \in 1..Len(x) |-> [i \in 1..Rows(model) |-> Dot(model[i], x[r])]]

\* nn.Linear(dim_in, dim_in, bias=True): x @ w^T + b
Linear(lin, x) ==
    [r \in 1..Len(x) |-> [i \in 1..Len(lin.w) |-> RAdd(Dot(lin.w[i], x[r]), lin.b[i])]]

\* nn.L1Loss(reduction='sum')
surprise_metric(pred, target) ==
    RSumSeq([r \in 1..Len(pred) |->
                RSumSeq([i \in 1..Len(pred[r]) |-> RAbs(RSub(pred[r][i], target[r][i]))])])

\* torch.autograd.grad(s_t, memory.get_weights()) for s_t = sum |model k - v|:
\* d s_t / d model[i][j] = sum over rows r of sign(pred[r][i] - v[r][i]) * k[r][j]
autograd_grad(bufs, k, v) ==
    LET model == get_buffer(bufs, <<"model">>)
        pred == LinearMemory_forward(bufs, k)
    IN  << Grad([i \in 1..Rows(model) |-> [j \in 1..Cols(model) |->
               RSumSeq([r \in 1..Len(k) |->
                          RMul(RSign(RSub(pred[r][i], v[r][i])), k[r][j])])]]) >>

\* eta=torch.tensor(0.9), alpha=torch.tensor(0.1)
CondEta == R(9, 10)
CondAlpha == R(1, 10)

\* the body of the chunk loop of the chunked condition, on the rows x of one
\* chunk: [buffers, s_t, raised, warnings]
condition_step(bufs, lrate, key, value, x) ==
    LET k == Linear(key, x)
        v == Linear(value, x)
        s_t == surprise_metric(LinearMemory_forward(bufs, k), v)
        grads == autograd_grad(bufs, k, v)
        u == update(bufs, lrate, grads, CondEta, CondAlpha)
    IN  [buffers |-> u.buffers, s_t |-> s_t, raised |-> u.raised, warnings |-> u.warnings]

\* NeuralMemory.condition of src/model.py: the whole input in one step
condition_single(bufs, lrate, key, value, x) ==
    LET k == Linear(key, x)
        v == Linear(value, x)
        s_t == surprise_metric(LinearMemory_forward(bufs, k), v)
        u == update(bufs, lrate, autograd_grad(bufs, k, v), R(9, 10), R(1, 10))
    IN  [buffers |-> u.buffers, s_t |-> s_t, raised |-> u.raised, warnings |-> u.warnings]

\* SubSeq for rows a..b
Slice(x, a, b) == [r \in 1..(b - a + 1) |-> x[a + r - 1]]

CeilDiv(a, b) == (a + b - 1) \div b

\* mutant: the chunks come out last first
split_reversed(x, split_size) ==
    LET L == Len(x)
        n == IF split_size = 0 THEN 1
             ELSE IF CeilDiv(L, split_size) > 1 THEN CeilDiv(L, split_size) ELSE 1
        last_size == split_size - (split_size * n - L)
        piece(i) == IF i < n
                    THEN Slice(x, (i - 1) * split_size + 1, i * split_size)
                    ELSE Slice(x, (i - 1) * split_size + 1, (i - 1) * split_size + last_size)
    IN  IF split_size < 0 \/ (split_size = 0 /\ L # 0)
        THEN [raised |-> TRUE, chunks |-> <<>>]
        ELSE [raised |-> FALSE, chunks |-> [i \in 1..n |-> piece(n + 1 - i)]]

\* mutant: floor(L/c) + 1 chunks, an empty one after an exact division
split_extra(x, split_size) ==
    LET L == Len(x)
        n == IF split_size = 0 THEN 1 ELSE (L \div split_size) + 1
    IN  IF split_size < 0 \/ (split_size = 0 /\ L # 0)
        THEN [raised |-> TRUE, chunks |-> <<>>]
        ELSE [raised |-> FALSE,
              chunks |-> [i \in 1..n |->
                            Slice(x, (i - 1) * split_size + 1, Min(i * split_size, L))]]

\* torch.split(x, split_size, dim=1) on a sequence axis of length Len(x):
\* [raised, chunks]
split(x, split_size) ==
    LET L == Len(x)
        n == IF split_size = 0 THEN 1
             ELSE IF CeilDiv(L, split_size) > 1 THEN CeilDiv(L, split_size) ELSE 1
        last_size == split_size - (split_size * n - L)
    IN  IF split_size < 0 \/ (split_size = 0 /\ L # 0)
        THEN [raised |-> TRUE, chunks |-> <<>>]
        ELSE [raised |-> FALSE,
              chunks |-> [i \in 1..n |->
                            IF i < n
                            THEN Slice(x, (i - 1) * split_size + 1, i * split_size)
                            ELSE Slice(x, (i - 1) * split_size + 1,
                                       (i - 1) * split_size + last_size)]]

\* mutant: the recalled value is stored back as the memory matrix
NeuralMemory_forward_writes(bufs, q, x, query) ==
    LET out == LinearMemory_forward(bufs, IF query THEN Linear(q, x) ELSE x)
    IN  [out |-> out, buffers |-> register_buffer(bufs, <<"model">>, out)]

\* NeuralMemory.forward(x, query): [out, buffers]
NeuralMemory_forward(bufs, q, x, query) ==
    [out |-> LinearMemory_forward(bufs, IF query THEN Linear(q, x) ELSE x),
     buffers |-> bufs]

(***************************************************************************)
(* Inputs: construction arguments, random draws and call arguments.        *)
(***************************************************************************)
\* dim_in = dim_out (the L1 metric compares a dim_out-wide prediction with a
\* dim_in-wide value)
Dims == {1, 2}
\* update_chunk_size as the caller may pass it
ChunkSizes == {-1, 0, 1, 2, 3, MaxRows + 1}
\* lr, default 1e-3
Lrs == {R(1, 1000)}
StoreLrs == {R(1, 1000), R(1, 2)}

\* a d x d matrix with a on the diagonal and o elsewhere, bias b everywhere
Lin(d, a, o, b) ==
    [w |-> [i \in 1..d |-> [j \in 1..d |-> IF i = j THEN a ELSE o]],
     b |-> [i \in 1..d |-> b]]

\* the learnable projections (key, value, query) an instance may hold
Projections(d) ==
    { [key |-> Lin(d, ROne, RZero, RZero), value |-> Lin(d, RInt(-1), RZero, ROne),
       query |-> Lin(d, ROne, RZero, RZero)],
      [key |-> Lin(d, RInt(2), ROne, RInt(-1)), value |-> Lin(d, ROne, ROne, RZero),
       query |-> Lin(d, RZero, ROne, ROne)] }

\* samples of the weight initialiser for a (dout, din) matrix
WeightSamples(dout, din) ==
    { [i \in 1..dout |-> [j \in 1..din |-> RZero]],
      [i \in 1..dout |-> [j \in 1..din |-> IF i = j THEN R(1, 2) ELSE RInt(-1)]] }

\* rows of an input of width d
XRows(d) == { [j \in 1..d |-> RZero], [j \in 1..d |-> IF j % 2 = 1 THEN ROne ELSE RInt(-1)] }

\* inputs of sequence length 0..n
Inputs(d, n) == UNION { [1..L -> XRows(d)] : L \in 0..n }

\* gradients a caller of update may pass for a weight of the shape of t
GradsLike(t) ==
    { Grad([i \in 1..Rows(t) |-> [j \in 1..Cols(t) |-> RInt(s * (i + j - 1))]]) : s \in {-1, 2} }
    \cup {NoneGrad}

\* gradient lists of length n for the store bufs: position i holds a gradient
\* shaped like the i-th weight (like a 1x1 tensor past the last weight)
GradLists(bufs, n) ==
    LET ws == get_weights(bufs)
        choice(i) == IF i <= Len(ws) THEN GradsLike(ws[i]) ELSE {Grad(<< <<ROne>> >>)}
    IN  { g \in [1..n -> UNION { choice(i) : i \in 1..n }] : \A i \in 1..n : g[i] \in choice(i) }

\* (eta, alpha) a caller of update may pass
Coeffs == { <<R(9, 10), R(1, 10)>>, <<R(1, 2), ROne>> }

(***************************************************************************)
(* State.                                                                  *)
(*   buffers   the store's _buffers (ordered)                              *)
(*   layers    the weight names construct_layers returned, in order        *)
(*   lr        the store's learning rate                                   *)
(*   unit      the NeuralMemory instance's fields                          *)
(*   pc        "new" before construction, "store" for a bare store,        *)
(*             "idle" / "loop" for a unit outside / inside condition       *)
(*   call      the running (or last) condition call                        *)
(*   last      the last completed operation and what it returned           *)
(*   warnings  number of warnings logged                                   *)
(*   nUpdate   number of calls of the store's update                       *)
(*   used      rows of input the condition calls have consumed so far      *)
(***************************************************************************)
NoLin == [w |-> <<>>, b |-> <<>>]
NoUnit == [dim_in |-> 0, dim_out |-> 0, update_chunk_size |-> 0,
           key |-> NoLin, value |-> NoLin, query |-> NoLin]
NoCall == [x |-> <<>>, chunks |-> <<>>, i |-> 0, s_t_total |-> RZero,
           store0 |-> <<>>, nupd |-> 0]
Op(name, raised, grads, eta, alpha, out) ==
    [op |-> name, raised |-> raised, grads |-> grads, eta |-> eta, alpha |-> alpha,
     out |-> out]
OpOf(name, raised, out) == Op(name, raised, <<>>, RZero, RZero, out)

NamesOf(weights) == [i \in 1..Len(weights) |-> weights[i].name]

Init ==
    /\ buffers = <<>>
    /\ layers = <<>>
    /\ lr = RZero
    /\ unit = NoUnit
    /\ pc = "new"
    /\ call = NoCall
    /\ last = OpOf("none", FALSE, <<>>)
    /\ warnings = 0
    /\ nUpdate = 0
    /\ used = 0

(***************************************************************************)
(* SpecStore: a bare MemoryModule and its update.                          *)
(***************************************************************************)
\* MemoryModule.__init__ of a LinearMemory(dim_in=2, dim_out=1, lr)
LinearMemory_init ==
    /\ pc = "new"
    /\ \E w \in WeightSamples(1, 2), lrate \in StoreLrs :
         /\ buffers' = construct_layers(LinearMemory_construct_layers(w))
         /\ layers' = NamesOf(LinearMemory_construct_layers(w))
         /\ lr' = lrate
    /\ pc' = "store"
    /\ last' = OpOf("init", FALSE, <<>>)
    /\ UNCHANGED <<unit, call, warnings, nUpdate, used>>

\* MemoryModule.__init__ of the two-entry variant
AffineMemory_init ==
    /\ pc = "new"
    /\ \E w \in WeightSamples(1, 2), b \in {<< <<R(1, 4)>> >>}, lrate \in StoreLrs :
         /\ buffers' = construct_layers(AffineMemory_construct_layers(w, b))
         /\ layers' = NamesOf(AffineMemory_construct_layers(w, b))
         /\ lr' = lrate
    /\ pc' = "store"
    /\ last' = OpOf("init", FALSE, <<>>)
    /\ UNCHANGED <<unit, call, warnings, nUpdate, used>>

\* store.update(grads, eta, alpha)
Update ==
    /\ pc = "store"
    /\ nUpdate < MaxUpdates
    /\ \E n \in 0..(Len(get_weights(buffers)) + 1) :
         \E grads \in GradLists(buffers, n), co \in Coeffs :
           LET u == update(buffers, lr, grads, co[1], co[2])
           IN  /\ buffers' = u.buffers
               /\ warnings' = warnings + u.warnings
               /\ nUpdate' = nUpdate + 1
               /\ last' = Op("update", u.raised, grads, co[1], co[2], <<>>)
    /\ UNCHANGED <<layers, lr, unit, pc, call, used>>

NextStore == LinearMemory_init \/ AffineMemory_init \/ Update

SpecStore == Init /\ [][NextStore]_vars

(***************************************************************************)
(* Spec: a NeuralMemory unit (chunked conditioning) over a LinearMemory.   *)
(***************************************************************************)
\* NeuralMemory.__init__(dim_in, dim_out, update_chunk_size, lr): the fields
\* are stored as given
NeuralMemory_init ==
    /\ pc = "new"
    /\ \E d \in Dims, c \in ChunkSizes, lrate \in Lrs :
         \E w \in WeightSamples(d, d), p \in Projections(d) :
           /\ unit' = [dim_in |-> d, dim_out |-> d, update_chunk_size |-> c,
                       key |-> p.key, value |-> p.value, query |-> p.query]
           /\ buffers' = construct_layers(LinearMemory_construct_layers(w))
           /\ layers' = NamesOf(LinearMemory_construct_layers(w))
           /\ lr' = lrate
    /\ pc' = "idle"
    /\ last' = OpOf("init", FALSE, <<>>)
    /\ UNCHANGED <<call, warnings, nUpdate, used>>

Cost(x) == IF Len(x) = 0 THEN 1 ELSE Len(x)

\* condition(x): torch.split raises (nothing has been touched yet)
ConditionRaise ==
    /\ pc = "idle"
    /\ \E x \in Inputs(unit.dim_in, MaxRows - used) :
         /\ split(x, unit.update_chunk_size).raised
         /\ call' = [NoCall EXCEPT !.x = x, !.store0 = buffers]
    /\ last' = OpOf("condition", TRUE, <<>>)
    /\ UNCHANGED <<buffers, layers, lr, unit, pc, warnings, nUpdate, used>>

\* condition(x): the chunks are cut, s_t_total = 0, the loop is entered
ConditionBegin ==
    /\ pc = "idle"
    /\ \E x \in Inputs(unit.dim_in, MaxRows - used) :
         LET sp == split(x, unit.update_chunk_size)
         IN  /\ ~sp.raised
             /\ used + Cost(x) <= MaxRows
             /\ call' = [x |-> x, chunks |-> sp.chunks, i |-> 1, s_t_total |-> RZero,
                         store0 |-> buffers, nupd |-> 0]
             /\ used' = used + Cost(x)
    /\ pc' = "loop"
    /\ last' = OpOf("condition_begin", FALSE, <<>>)
    /\ UNCHANGED <<buffers, layers, lr, unit, warnings, nUpdate>>

\* one iteration of `for x in chunks`
ConditionChunk ==
    /\ pc = "loop"
    /\ call.i <= Len(call.chunks)
    /\ LET st == condition_step(buffers, lr, unit.key, unit.value, call.chunks[call.i])
       IN  /\ buffers' = st.buffers
           /\ warnings' = warnings + st.warnings
           /\ call' = [call EXCEPT !.i = @ + 1,
                                   !.s_t_total = RAdd(@, st.s_t),
                                   !.nupd = @ + 1]
    /\ nUpdate' = nUpdate + 1
    /\ UNCHANGED <<layers, lr, unit, pc, last, used>>

\* return s_t_total
ConditionReturn ==
    /\ pc = "loop"
    /\ call.i > Len(call.chunks)
    /\ pc' = "idle"
    /\ last' = OpOf("condition", FALSE, call.s_t_total)
    /\ UNCHANGED <<buffers, layers, lr, unit, call, warnings, nUpdate, used>>

\* forward(x, query)
Forward ==
    /\ pc = "idle"
    /\ \E x \in [1..1 -> XRows(unit.dim_in)], query \in BOOLEAN :
         LET f == NeuralMemory_forward(buffers, unit.query, x, query)
         IN  /\ buffers' = f.buffers
             /\ last' = Op("forward", FALSE, <<>>, RZero, RZero, f.out)
    /\ UNCHANGED <<layers, lr, unit, pc, call, warnings, nUpdate, used>>

Next ==
    \/ NeuralMemory_init
    \/ ConditionRaise
    \/ ConditionBegin
    \/ ConditionChunk
    \/ ConditionReturn
    \/ Forward

Spec == Init /\ [][Next]_vars

(***************************************************************************)
(* Reference statements of the recurrence, written elementwise from the    *)
(* specification's formulas.                                               *)
(***************************************************************************)
\* s_new = eta * s_old + lr * grad, elementwise
RefSurprise(s_new, s_old, grad, lrate, eta) ==
    /\ shape(s_new) = shape(s_old)
    /\ \A i \in 1..Rows(s_old) : \A j \in 1..Cols(s_old) :
         s_new[i][j] = RAdd(RMul(eta, s_old[i][j]), RMul(lrate, grad[i][j]))

\* w_new = (1 - alpha) * w_old + s_new, elementwise
RefWeight(w_new, w_old, s_new, alpha) ==
    /\ shape(w_new) = shape(w_old)
    /\ \A i \in 1..Rows(w_old) : \A j \in 1..Cols(w_old) :
         w_new[i][j] = RAdd(RMul(RSub(ROne, alpha), w_old[i][j]), s_new[i][j])

SurpriseOf(bufs, name) == get_buffer(bufs, get_corresponding_surprise_name(name))

\* the step just taken was a call of the store's update in SpecStore
UpdateCalled == pc = "store" /\ nUpdate' = nUpdate + 1

\* the i-th pair of bufs2 is the recurrence applied to the i-th pair of bufs1
PairUpdated(bufs1, bufs2, i, grad, lrate, eta, alpha) ==
    LET name == layers[i]
    IN  /\ RefSurprise(SurpriseOf(bufs2, name), SurpriseOf(bufs1, name), grad, lrate, eta)
        /\ RefWeight(get_buffer(bufs2, name), get_buffer(bufs1, name),
                     SurpriseOf(bufs2, name), alpha)

PairSame(bufs1, bufs2, i) ==
    /\ SurpriseOf(bufs2, layers[i]) = SurpriseOf(bufs1, layers[i])
    /\ get_buffer(bufs2, layers[i]) = get_buffer(bufs1, layers[i])

(***************************************************************************)
(* Claims on the store (SpecStore).                                        *)
(***************************************************************************)
\* C1: after update(grads, eta, alpha) with a correctly sized gradient list,
\* every entry whose gradient is provided has
\* surprise_new = eta*surprise_old + lr*grad and
\* weight_new = (1-alpha)*weight_old + surprise_new (the new surprise).
C1_Recurrence ==
    [][ (UpdateCalled /\ Len(last'.grads) = Len(layers))
        => \A i \in 1..Len(layers) :
             ~last'.grads[i].none
             => PairUpdated(buffers, buffers', i, last'.grads[i].val, lr,
                            last'.eta, last'.alpha) ]_vars

\* a second update with a provided gradient has run on a store whose old
\* surprise was not zero (the new surprise is not just lr*grad)
C1_Witness ==
    /\ pc = "store" /\ last.op = "update" /\ ~last.raised /\ nUpdate >= 2
    /\ \E i \in 1..Len(layers) :
         /\ ~last.grads[i].none
         /\ SurpriseOf(buffers, layers[i]) # TScale(lr, last.grads[i].val)
         /\ SurpriseOf(buffers, layers[i]) # get_buffer(buffers, layers[i])

\* C2: update with a gradient list shorter or longer than the number of
\* weight entries fails and mutates nothing.
C2_ShapeMismatchAtomic ==
    [][ (UpdateCalled /\ Len(last'.grads) # Len(layers))
        => (last'.raised /\ buffers' = buffers) ]_vars

\* a too-short list whose first gradient is provided was rejected on a
\* two-entry store
C2_Witness ==
    /\ pc = "store" /\ last.op = "update" /\ last.raised
    /\ Len(layers) = 2 /\ Len(last.grads) = 1 /\ ~last.grads[1].none

\* C3: in a correctly sized gradient list holding the no-gradient marker, the
\* marked pairs are left as they were, the other pairs are updated by the
\* recurrence, one warning per marker is logged and the call does not raise.
C3_NoGradientSkips ==
    [][ (UpdateCalled /\ Len(last'.grads) = Len(layers)
         /\ \E i \in 1..Len(layers) : last'.grads[i].none)
        => /\ ~last'.raised
           /\ warnings' = warnings
                + Cardinality({i \in 1..Len(layers) : last'.grads[i].none})
           /\ warnings' > warnings
           /\ \A i \in 1..Len(layers) :
                IF last'.grads[i].none
                THEN PairSame(buffers, buffers', i)
                ELSE PairUpdated(buffers, buffers', i, last'.grads[i].val, lr,
                                 last'.eta, last'.alpha) ]_vars

\* the marker came first and a provided gradient after it, and that later
\* pair was updated
C3_Witness ==
    /\ pc = "store" /\ last.op = "update" /\ ~last.raised /\ warnings >= 1
    /\ Len(layers) = 2 /\ Len(last.grads) = 2
    /\ last.grads[1].none /\ ~last.grads[2].none
    /\ SurpriseOf(buffers, layers[2]) # zeros_like(get_buffer(buffers, layers[2]))

\* C7: every weight entry has exactly one paired surprise entry of the same
\* shape, all zeros right after construction; the enumeration of current
\* weights is exactly the entries registered at construction, in order, and
\* holds no surprise entry.
C7_PairedSurprise ==
    pc = "store" =>
      LET nw == get_named_weights(buffers)
      IN  /\ NamesOf(nw) = layers
          /\ \A i \in 1..Len(nw) : ~ContainsSurprise(nw[i].name)
          /\ get_weights(buffers) = [i \in 1..Len(layers) |-> get_buffer(buffers, layers[i])]
          /\ Len(buffers) = 2 * Len(layers)
          /\ \A i \in 1..Len(layers) :
               /\ Cardinality({j \in 1..Len(buffers) :
                     buffers[j].name = get_corresponding_surprise_name(layers[i])}) = 1
               /\ Cardinality({j \in 1..Len(buffers) : buffers[j].name = layers[i]}) = 1
               /\ shape(SurpriseOf(buffers, layers[i])) = shape(get_buffer(buffers, layers[i]))
               /\ last.op = "init"
                    => SurpriseOf(buffers, layers[i]) = zeros_like(get_buffer(buffers, layers[i]))

\* a two-entry store after two or more update calls, both of its surprise
\* entries written
C7_Witness ==
    /\ pc = "store" /\ Len(layers) = 2 /\ nUpdate >= 2
    /\ last.op = "update" /\ ~last.raised
    /\ \A i \in 1..2 : SurpriseOf(buffers, layers[i]) # zeros_like(get_buffer(buffers, layers[i]))

(***************************************************************************)
(* Reference fold for the unit: the recurrence applied chunk by chunk,     *)
(* in original order, with eta = 0.9 and alpha = 0.1.                      *)
(***************************************************************************)
\* the j-th chunk of x for chunk size c: rows (j-1)c+1 .. min(jc, L)
RefChunk(x, c, j) == Slice(x, (j - 1) * c + 1, Min(j * c, Len(x)))

\* the one element of a singleton; { e(v) : v \in {expr} } evaluates expr once
The(S) == CHOOSE v \in S : TRUE

\* gradient of sum |M k - v| with respect to M
RefGrad(M, k, v) ==
    [i \in 1..Rows(M) |-> [j \in 1..Cols(M) |->
        RSumSeq([r \in 1..Len(k) |->
                   RMul(RSign(RSub(Dot(M[i], k[r]), v[r][i])), k[r][j])])]]

\* S2 = 0.9*S + lr*g, M2 = 0.9*M + S2
RefStepOn(M, S, g, lrate) ==
    The({ << [name |-> <<"model">>,
              val |-> [i \in 1..Rows(M) |-> [j \in 1..Cols(M) |->
                         RAdd(RMul(R(9, 10), M[i][j]), S2[i][j])]]],
             [name |-> get_corresponding_surprise_name(<<"model">>), val |-> S2] >> :
          S2 \in { [i \in 1..Rows(S) |-> [j \in 1..Cols(S) |->
                      RAdd(RMul(R(9, 10), S[i][j]), RMul(lrate, g[i][j]))]] } })

RefStepKV(M, S, k, v, lrate) ==
    The({ RefStepOn(M, S, g, lrate) : g \in { RefGrad(M, k, v) } })

RefStep(bufs, lrate, key, value, rows) ==
    The({ RefStepKV(M, S, k, v, lrate) :
          M \in { get_buffer(bufs, <<"model">>) }, S \in { SurpriseOf(bufs, <<"model">>) },
          k \in { Linear(key, rows) }, v \in { Linear(value, rows) } })

\* the store after the first n chunks of x
RECURSIVE RefFold(_, _, _, _, _, _, _)
RefFold(bufs, lrate, key, value, x, c, n) ==
    IF n = 0 THEN bufs
    ELSE The({ RefStep(b, lrate, key, value, RefChunk(x, c, n)) :
               b \in { RefFold(bufs, lrate, key, value, x, c, n - 1) } })

\* a condition call has returned normally and nothing has run since
Returned == pc = "idle" /\ last.op = "condition" /\ ~last.raised

(***************************************************************************)
(* Claims on the unit (Spec).                                              *)
(***************************************************************************)
\* C4: within one condition call the updates are sequential along the chunk
\* axis: when chunk i is about to be processed (and when the call has
\* returned) the store is the recurrence folded over the chunks before it, in
\* original order, from the store as it was when the call began.
C4_SequentialFold ==
    (pc \in {"idle", "loop"} /\ call.i >= 1)
      => buffers = RefFold(call.store0, lr, unit.key, unit.value, call.x,
                           unit.update_chunk_size, call.i - 1)

\* a call over at least two chunks, the last one shorter, has returned
C4_Witness ==
    /\ Returned
    /\ Len(call.chunks) >= 2
    /\ Len(call.x) % unit.update_chunk_size # 0
    /\ call.nupd = Len(call.chunks)
    /\ buffers # call.store0
    /\ buffers # RefStep(call.store0, lr, unit.key, unit.value, call.x)

\* C5: condition on an input of sequence length L >= 0 with chunk size
\* c >= 1 performs exactly ceil(L/c) calls of update, one per chunk, the
\* chunks being the consecutive slices of size c with the remainder last.
C5_UpdateCount ==
    (Returned /\ unit.update_chunk_size >= 1)
      => /\ call.nupd = CeilDiv(Len(call.x), unit.update_chunk_size)
         /\ Len(call.chunks) = call.nupd
         /\ \A j \in 1..Len(call.chunks) :
              call.chunks[j] = RefChunk(call.x, unit.update_chunk_size, j)

\* C6: forward(x, query), for either value of query, changes no buffer of
\* the store; buffers change only in a step that calls update.
C6_ForwardPureRead ==
    [][ /\ (pc = "idle" /\ pc' = "idle" /\ last'.op = "forward") => buffers' = buffers
        /\ (pc # "new" /\ buffers' # buffers) => nUpdate' = nUpdate + 1 ]_vars

\* forward has run, with the query projection, on a memory that condition
\* had written, and recalled something
C6_Witness ==
    /\ pc = "idle" /\ last.op = "forward" /\ nUpdate >= 2
    /\ buffers # call.store0
    /\ \E r \in 1..Len(last.out) : \E i \in 1..Len(last.out[r]) : last.out[r][i] # RZero

\* C8: an instance never exists with a non-positive dim_in, dim_out or
\* update_chunk_size (construction with such a value fails).
C8_InvalidConstructionFails ==
    pc \in {"idle", "loop"}
      => unit.dim_in >= 1 /\ unit.dim_out >= 1 /\ unit.update_chunk_size >= 1

\* C9 as stated: every condition call (here: on a non-empty input, with a
\* positive chunk size) leaves the store different from what it was.
C9_EveryCallAdvances ==
    (Returned /\ unit.update_chunk_size >= 1 /\ Len(call.x) >= 1)
      => buffers # call.store0

\* the pair (M, S) is a fixed point of the recurrence for gradient g:
\* 0.9*S + lr*g = S and 0.1*M = S, elementwise
FixedPoint(M, S, g, lrate) ==
    \A i \in 1..Rows(M) : \A j \in 1..Cols(M) :
      /\ RAdd(RMul(R(9, 10), S[i][j]), RMul(lrate, g[i][j])) = S[i][j]
      /\ RMul(R(1, 10), M[i][j]) = S[i][j]

\* C9 amended: every chunk's update step of condition changes the store,
\* except exactly when the store is at a fixed point of the recurrence for
\* that chunk's gradient, where it is left as it was.
C9_StepAdvancesUnlessFixed ==
    [][ (pc = "loop" /\ call'.i = call.i + 1)
        => LET rows == call.chunks[call.i]
               M == get_buffer(buffers, <<"model">>)
               S == SurpriseOf(buffers, <<"model">>)
               g == RefGrad(M, Linear(unit.key, rows), Linear(unit.value, rows))
           IN  (buffers' = buffers) <=> FixedPoint(M, S, g, lr) ]_vars

\* a call of two or more update steps on non-zero weights has advanced the
\* store
C9_Witness ==
    /\ Returned /\ call.nupd >= 2 /\ Len(call.x) >= 2
    /\ get_buffer(call.store0, <<"model">>) # zeros_like(get_buffer(call.store0, <<"model">>))
    /\ buffers # call.store0

====
